---- MODULE Spec2Model ----
(***************************************************************************)
(* Model of the resumable crawl-and-parse pipeline of scrapper.py:         *)
(* CrawlerRecursive.find_articles (the seed walk with its persisted        *)
(* CrawlState), ArticleParser.parse/save (with its persisted ParserState)  *)
(* and main, together with process termination and restart.                *)
(*                                                                         *)
(* Listing pages are the integers 1..NumPages, chained by their next-page  *)
(* control; page 0 stands for "no page".  Article URLs are positive        *)
(* integers, ordered as the URL strings are ordered by sorted().           *)
(***************************************************************************)
EXTENDS Integers, Sequences, FiniteSets

\* ------------------------------------------------------------- bounds
NumPages == 4
LinksPerPage == 3
MaxArticlesBound == 5
MaxPerSeedBound == 3
MaxRuns == 2

VARIABLES
    max_articles,           \* Crawler.max_articles
    max_articles_per_seed,  \* Crawler.max_articles_per_seed
    layout,                 \* which site the listing pages belong to
    lastPage,               \* the listing page that has no next-page control
    badDates,               \* article URLs whose <time datetime> is not ISO-8601
    configFile,             \* the file at CRAWLER_CONFIG_PATH
    validated,              \* what validate_config returned to main, if it did
    crawlerFile,            \* the CRAWLER_STATE file
    parserFile,             \* the PARSER_STATE file
    assetsExist,            \* os.path.exists(ASSETS_PATH)
    store,                  \* ArticleStore: article id -> what save_raw wrote
    pc,                     \* position of the process in main
    seed_urls,              \* crawler.seed_urls
    urls,                   \* crawler.urls (the DiscoveredURLSet)
    seed,                   \* local `seed` of find_articles
    idx,                    \* loop index of main's enumerate
    article,                \* parser.article
    state,                  \* local `state` of ArticleParser._save_state
    exc,                    \* the exception that ended the run, if any
    runs,                   \* how many times main has been started
    added,                  \* history: URLs the last processed seed page added
    merged,                 \* history: pages whose links are merged in `urls`
    loaded,                 \* history: pages merged in the CrawlState this run loaded first
    fetched,                \* history: listing pages fetched by this run
    saves,                  \* history: article id -> number of save_raw calls
    lastKill,               \* history: where the last kill hit the process, and the
                            \* store and the persisted URL list it left behind
    started,                \* how many instances of the parse loop share PARSER_STATE
    ipc,                    \* instance -> its position in parse / _save_state
    iidx,                   \* instance -> loop index of its enumerate
    istate,                 \* instance -> its local `state` of _save_state
    completed               \* history: URLs whose parse has returned from _save_state

config == <<max_articles, max_articles_per_seed, layout, lastPage, badDates,
           configFile, validated>>
disk == <<crawlerFile, parserFile, assetsExist, store>>
memory == <<seed_urls, urls, seed, idx, article, state>>
history == <<added, merged, loaded, fetched, saves, lastKill>>
instances == <<started, ipc, iidx, istate, completed>>
vars == <<config, disk, memory, history, pc, exc, runs, instances>>

\* ------------------------------------------------------------- the site
NoPage == 0
FirstPage == 1
Pages == 1..NumPages
Layouts == {"distinct", "overlap", "repeat"}

Min(a, b) == IF a <= b THEN a ELSE b
Max(a, b) == IF a >= b THEN a ELSE b
Range(s) == {s[i] : i \in 1..Len(s)}
SetMax(S) == CHOOSE x \in S : \A y \in S : y <= x

\* The article anchors of listing page p, in document order.
\*   distinct: every page has LinksPerPage links of its own;
\*   overlap:  the last link of page p+1 is the first link of page p, so
\*             one link of page p+1 is already known after page p;
\*   repeat:   a page names its first article twice.
PageLinks(lay, p) ==
    LET K == LinksPerPage
        base == IF lay = "overlap" THEN (p - 1) * (K - 1) ELSE (p - 1) * K
    IN  [i \in 1..K |->
            IF lay = "repeat" /\ i = 2 THEN base + K
            ELSE base + K + 1 - i]

\* The href of the pagination control after the current-page marker.
NextPage(p) == IF p \in Pages /\ p < lastPage THEN p + 1 ELSE NoPage

\* config['base_urls']: the first listing page, and a second seed outside the
\* pagination chain of the first
base_urls == <<FirstPage, NumPages + 1>>

\* ------------------------------------------------------------- helpers
\* Python's s[:n]
PySliceTo(s, n) ==
    LET k == IF n >= 0 THEN Min(n, Len(s)) ELSE Max(Len(s) + n, 0)
    IN  SubSeq(s, 1, k)

\* Python's sorted(S) for a set S
RECURSIVE sorted(_)
sorted(S) ==
    IF S = {} THEN <<>>
    ELSE LET m == CHOOSE x \in S : \A y \in S : x <= y
         IN  <<m>> \o sorted(S \ {m})

\* Crawler._extract_url
extract_url(page) == PageLinks(layout, page)

\* _process_seed without the cut to max_articles - len(self.urls)
process_seed_uncapped(page, known) ==
    PySliceTo(extract_url(page), max_articles_per_seed)

\* _process_seed without the cut to max_articles_per_seed
process_seed_whole_page(page, known) ==
    PySliceTo(extract_url(page), max_articles - Cardinality(known))

\* Crawler._process_seed, with self.urls = known
process_seed(page, known) ==
    LET seed_articles == PySliceTo(extract_url(page), max_articles_per_seed)
    IN  PySliceTo(seed_articles, max_articles - Cardinality(known))

\* CrawlerRecursive.find_articles run from cursor p with self.urls = known, every
\* fetch succeeding and nothing interrupting it: the set it ends with, and whether
\* it ends by returning (the cap is met) or at a page without a next-page control.
RECURSIVE Walk(_, _)
Walk(p, known) ==
    IF NextPage(p) = NoPage
    THEN [returned |-> FALSE, urls |-> known]
    ELSE LET new == known \cup Range(process_seed(p, known))
         IN  IF Cardinality(new) = max_articles
             THEN [returned |-> TRUE, urls |-> new]
             ELSE Walk(NextPage(p), new)

\* ------------------------------------------------------------- the configuration
MaxBaseUrls == 2
MaxTotalArticles == 100000

\* URL strings, character by character, with the characters the pattern tells
\* apart: "S" an http:// or https:// prefix, "a" a letter or digit, "-" a dash
\* or underscore, and ".", "/", " " themselves.
GoodUrl == <<"S", "a", ".", "a", ".", "a", "/", "a">>
BareUrl == <<"a", ".", "a", "-", "a", ".", "a">>
OneDotUrl == <<"S", "a", ".", "a", "/">>
DashFirstUrl == <<"a", "-", "a", ".", "a", ".", "a">>
NotAUrl == <<"a", " ", "a", " ", "a">>
UrlSamples == {GoodUrl, BareUrl, OneDotUrl, DashFirstUrl, NotAUrl}

\* JSON values of the count field, with the Python type json.load gives them.
IntValue(n) == [type |-> "int", val |-> n]
TotalSamples ==
    {IntValue(n) : n \in {-1, 0, 1, 5, MaxTotalArticles, MaxTotalArticles + 1}}
    \cup {[type |-> "str", val |-> 5], [type |-> "float", val |-> 5],
          [type |-> "bool", val |-> 0], [type |-> "bool", val |-> 1]}

ConfigFields == {"base_urls", "total_articles_to_find_and_parse",
                 "max_number_articles_to_get_from_one_seed"}

RECURSIVE SeqsUpTo(_, _)
SeqsUpTo(S, n) ==
    IF n = 0 THEN {<<>>}
    ELSE LET shorter == SeqsUpTo(S, n - 1)
         IN  shorter \cup {Append(q, x) : q \in shorter, x \in S}

ConfigFiles ==
    [json : BOOLEAN, fields : SUBSET ConfigFields,
     base_urls : SeqsUpTo(UrlSamples, MaxBaseUrls), total : TotalSamples,
     per_seed : 0..1]

\* A configuration file that validate_config accepts, with the given numbers.
ValidConfigFile(total, per_seed) ==
    [json |-> TRUE, fields |-> ConfigFields, base_urls |-> <<GoodUrl, BareUrl>>,
     total |-> IntValue(total), per_seed |-> per_seed]

\* The index after the longest run of characters of class cls that starts at i.
RECURSIVE RunEnd(_, _, _)
RunEnd(s, i, cls) ==
    IF i <= Len(s) /\ s[i] \in cls THEN RunEnd(s, i + 1, cls) ELSE i

\* url_check.match(s): ^(https?://)?[0-9a-z]+\.[-_0-9a-z]+\.[0-9a-z/]+ with re.I
url_check(s) ==
    LET i0 == IF Len(s) >= 1 /\ s[1] = "S" THEN 2 ELSE 1
        i1 == RunEnd(s, i0, {"a"})
        j1 == RunEnd(s, i1 + 1, {"a", "-"})
        k1 == RunEnd(s, j1 + 1, {"a", "/"})
    IN  /\ i1 > i0 /\ i1 <= Len(s) /\ s[i1] = "."
        /\ j1 > i1 + 1 /\ j1 <= Len(s) /\ s[j1] = "."
        /\ k1 > j1 + 1

\* isinstance(v, int): bool is a subclass of int
IsPythonInt(v) == v.type \in {"int", "bool"}

Returned(cf) ==
    [error |-> "none", base_urls |-> cf.base_urls, total |-> cf.total,
     per_seed |-> cf.per_seed]
Raised(e) ==
    [error |-> e, base_urls |-> <<>>, total |-> IntValue(0), per_seed |-> 0]
NotValidated == Raised("not called")

\* validate_config with the range check reported before the type check
validate_config_range_first(cf) ==
    IF ~cf.json THEN Raised("JSONDecodeError")
    ELSE IF "total_articles_to_find_and_parse" \notin cf.fields
    THEN Raised("UnknownConfigError")
    ELSE IF "base_urls" \notin cf.fields THEN Raised("UnknownConfigError")
    ELSE LET total_num == cf.total
             is_correct_total_num == IsPythonInt(total_num)
             is_correct_url == \A i \in 1..Len(cf.base_urls) : url_check(cf.base_urls[i])
             is_num_not_oor == /\ is_correct_total_num
                               /\ 0 < total_num.val /\ total_num.val <= MaxTotalArticles
         IN  IF ~is_correct_url THEN Raised("IncorrectURLError")
             ELSE IF ~is_num_not_oor THEN Raised("NumberOfArticlesOutOfRangeError")
             ELSE IF ~is_correct_total_num THEN Raised("IncorrectNumberOfArticlesError")
             ELSE IF "max_number_articles_to_get_from_one_seed" \notin cf.fields
             THEN Raised("UnknownConfigError")
             ELSE Returned(cf)

\* validate_config: json.load is called before the try block, so its
\* JSONDecodeError is not turned into UnknownConfigError; a KeyError is.
validate_config(cf) ==
    IF ~cf.json THEN Raised("JSONDecodeError")
    ELSE IF "total_articles_to_find_and_parse" \notin cf.fields
    THEN Raised("UnknownConfigError")
    ELSE IF "base_urls" \notin cf.fields THEN Raised("UnknownConfigError")
    ELSE LET total_num == cf.total
             is_correct_total_num == IsPythonInt(total_num)
             is_correct_url == \A i \in 1..Len(cf.base_urls) : url_check(cf.base_urls[i])
             is_num_not_oor == /\ is_correct_total_num
                               /\ 0 < total_num.val /\ total_num.val <= MaxTotalArticles
         IN  IF ~is_correct_url THEN Raised("IncorrectURLError")
             ELSE IF ~is_correct_total_num THEN Raised("IncorrectNumberOfArticlesError")
             ELSE IF ~is_num_not_oor THEN Raised("NumberOfArticlesOutOfRangeError")
             ELSE IF "max_number_articles_to_get_from_one_seed" \notin cf.fields
             THEN Raised("UnknownConfigError")
             ELSE Returned(cf)

\* ------------------------------------------------------------- files
NoFile == [status |-> "absent", urls |-> <<>>, seed |-> <<>>, pages |-> {}]
NoParserFile == [status |-> "absent", processed |-> <<>>]

\* Article(url, article_id): every field empty
EmptyArticle(u, i) ==
    [url |-> u, id |-> i, text |-> 0, title |-> 0, author |-> 0, date |-> 0, topics |-> <<>>]
NoArticle == EmptyArticle(0, 0)
ArticleIds == 0..(MaxArticlesBound - 1)

ResetMemory ==
    /\ seed_urls = <<>>
    /\ urls = {}
    /\ seed = NoPage
    /\ idx = 0
    /\ article = NoArticle
    /\ state = <<>>

\* How many instances are run against one PARSER_STATE, and the URLs each parses.
MaxInstances == 2
NumJobUrls == 2
Instances == 1..MaxInstances
JobUrls == 1..NumJobUrls

\* Only the process of `pc` runs.
NoInstances ==
    /\ started = 0
    /\ ipc = [w \in Instances |-> "off"]
    /\ iidx = [w \in Instances |-> 0]
    /\ istate = [w \in Instances |-> <<>>]
    /\ completed = {}

\* Before the first run: no state file, no assets, nothing in memory.
FreshJob ==
    /\ crawlerFile = NoFile
    /\ parserFile = NoParserFile
    /\ assetsExist = FALSE
    /\ store = [i \in ArticleIds |-> NoArticle]
    /\ pc = "start"
    /\ ResetMemory
    /\ exc = "none"
    /\ runs = 1
    /\ added = 0
    /\ merged = {}
    /\ loaded = {}
    /\ fetched = {}
    /\ saves = [i \in ArticleIds |-> 0]
    /\ lastKill = [at |-> "none", store |-> [i \in ArticleIds |-> NoArticle], urls |-> {}]

Init ==
    /\ max_articles \in 1..MaxArticlesBound
    /\ max_articles_per_seed \in 0..MaxPerSeedBound
    /\ layout \in Layouts
    /\ lastPage \in 2..NumPages
    /\ badDates \in {{}, {2}}
    /\ configFile = ValidConfigFile(max_articles, max_articles_per_seed)
    /\ validated = NotValidated
    /\ FreshJob
    /\ NoInstances

\* ------------------------------------------------------------- main
Running == {"start", "load_state", "get_search_urls", "process_seed", "save_open",
            "save_dump", "parse_loop", "parse", "parse_fetch", "ps_create",
            "ps_read", "ps_open", "ps_dump", "save"}

\* An exception nobody catches below main: `except Exception` at the top level
\* logs it and the process ends.
Raise(e) ==
    /\ pc' = "crashed"
    /\ exc' = e

\* main, up to the call of crawler.find_articles
main ==
    /\ pc = "start"
    /\ seed_urls' = base_urls
    /\ urls' = {}
    /\ assetsExist' = TRUE
    /\ store' = IF assetsExist THEN store ELSE [i \in ArticleIds |-> NoArticle]
    /\ pc' = "load_state"
    /\ UNCHANGED <<config, instances, crawlerFile, parserFile, seed, idx, article, state,
                   history, exc, runs>>

\* ------------------------------------------------------------- the seed walk
\* _load_state that restores the cursor list and not the URL set
Crawler_load_state_cursor_only ==
    /\ pc = "load_state"
    /\ IF crawlerFile.status = "absent"
       THEN /\ pc' = "get_search_urls"
            /\ UNCHANGED <<seed_urls, urls, merged, loaded, exc>>
       ELSE IF crawlerFile.status = "truncated"
       THEN /\ Raise("JSONDecodeError")
            /\ UNCHANGED <<seed_urls, urls, merged, loaded>>
       ELSE /\ seed_urls' = crawlerFile.seed
            /\ merged' = crawlerFile.pages
            /\ loaded' = IF fetched = {} THEN crawlerFile.pages ELSE loaded
            /\ pc' = "get_search_urls"
            /\ UNCHANGED <<urls, exc>>
    /\ UNCHANGED <<config, instances, disk, seed, idx, article, state, added, fetched, saves, lastKill, runs>>

\* CrawlerRecursive._load_state, the first statement of find_articles
Crawler_load_state ==
    /\ pc = "load_state"
    /\ IF crawlerFile.status = "absent"
       THEN /\ pc' = "get_search_urls"
            /\ UNCHANGED <<seed_urls, urls, merged, loaded, exc>>
       ELSE IF crawlerFile.status = "truncated"
       THEN /\ Raise("JSONDecodeError")
            /\ UNCHANGED <<seed_urls, urls, merged, loaded>>
       ELSE /\ seed_urls' = crawlerFile.seed
            /\ urls' = Range(crawlerFile.urls)
            /\ merged' = crawlerFile.pages
            /\ loaded' = IF fetched = {} THEN crawlerFile.pages ELSE loaded
            /\ pc' = "get_search_urls"
            /\ UNCHANGED exc
    /\ UNCHANGED <<config, instances, disk, seed, idx, article, state, added, fetched, saves, lastKill, runs>>

\* seed, self.seed_urls[0] = self.get_search_urls()
get_search_urls ==
    /\ pc = "get_search_urls"
    /\ \E ok \in BOOLEAN :
        LET cur == seed_urls[1]
        IN  /\ fetched' = fetched \cup {cur}
            /\ IF ~ok
               THEN \* BeautifulSoup(None, 'lxml')
                    /\ Raise("listing_fetch_failed")
                    /\ UNCHANGED <<seed, seed_urls>>
               ELSE IF NextPage(cur) = NoPage
               THEN \* next_page is None: next_page['href']
                    /\ Raise("no_next_page")
                    /\ UNCHANGED <<seed, seed_urls>>
               ELSE /\ seed' = cur
                    /\ seed_urls' = [seed_urls EXCEPT ![1] = NextPage(cur)]
                    /\ pc' = "process_seed"
                    /\ UNCHANGED exc
    /\ UNCHANGED <<config, instances, disk, urls, idx, article, state, added, merged, loaded,
                   saves, lastKill, runs>>

\* find_articles that assigns the page's links instead of merging them
find_articles_assign ==
    /\ pc = "process_seed"
    /\ \E ok \in BOOLEAN :
        IF ~ok
        THEN /\ Raise("listing_fetch_failed")
             /\ UNCHANGED <<urls, added, merged>>
        ELSE LET links == process_seed(seed, urls)
                 new == Range(links)
             IN  /\ urls' = new
                 /\ added' = Cardinality(new \ urls)
                 /\ merged' = merged \cup {seed}
                 /\ pc' = IF Cardinality(new) = max_articles
                          THEN "parse_loop" ELSE "save_open"
                 /\ UNCHANGED exc
    /\ UNCHANGED <<config, instances, disk, seed_urls, seed, idx, article, state, loaded,
                   fetched, saves, lastKill, runs>>

\* page = fetch_page(seed) ... if len(self.urls) == self.max_articles: return
find_articles ==
    /\ pc = "process_seed"
    /\ \E ok \in BOOLEAN :
        IF ~ok
        THEN \* _process_seed(None): BeautifulSoup(None, 'lxml')
             /\ Raise("listing_fetch_failed")
             /\ UNCHANGED <<urls, added, merged>>
        ELSE LET links == process_seed(seed, urls)
                 new == urls \cup Range(links)
             IN  /\ urls' = new
                 /\ added' = Cardinality(new) - Cardinality(urls)
                 /\ merged' = merged \cup {seed}
                 /\ pc' = IF Cardinality(new) = max_articles
                          THEN "parse_loop" ELSE "save_open"
                 /\ UNCHANGED exc
    /\ UNCHANGED <<config, instances, disk, seed_urls, seed, idx, article, state, loaded,
                   fetched, saves, lastKill, runs>>

\* CrawlerRecursive._save_state: open(CRAWLER_STATE, "w") empties the file
Crawler_save_state_open ==
    /\ pc = "save_open"
    /\ crawlerFile' = [NoFile EXCEPT !.status = "truncated"]
    /\ pc' = "save_dump"
    /\ UNCHANGED <<config, instances, parserFile, assetsExist, store, memory, history, exc, runs>>

\* _save_state that writes the page just processed as the cursor
Crawler_save_state_current_seed ==
    /\ pc = "save_dump"
    /\ crawlerFile' = [status |-> "ok", urls |-> sorted(urls),
                       seed |-> [seed_urls EXCEPT ![1] = seed], pages |-> merged]
    /\ pc' = "load_state"
    /\ UNCHANGED <<config, instances, parserFile, assetsExist, store, memory, history, exc, runs>>

\* CrawlerRecursive._save_state: json.dump and close; then find_articles recurs
Crawler_save_state ==
    /\ pc = "save_dump"
    /\ crawlerFile' = [status |-> "ok", urls |-> sorted(urls), seed |-> seed_urls,
                       pages |-> merged]
    /\ pc' = "load_state"
    /\ UNCHANGED <<config, instances, parserFile, assetsExist, store, memory, history, exc, runs>>

\* ------------------------------------------------------------- the parse phase
\* the loop over crawler.urls in descending order
main_loop_descending ==
    /\ pc = "parse_loop"
    /\ IF idx < Cardinality(urls)
       THEN /\ article' = EmptyArticle(sorted(urls)[Cardinality(urls) - idx], idx)
            /\ pc' = "parse"
       ELSE /\ pc' = "done"
            /\ UNCHANGED article
    /\ UNCHANGED <<config, instances, disk, seed_urls, urls, seed, idx, state, history, exc, runs>>

\* for idx, article_url in enumerate(sorted(crawler.urls)): parser = ArticleParser(...)
main_loop ==
    /\ pc = "parse_loop"
    /\ IF idx < Cardinality(urls)
       THEN /\ article' = EmptyArticle(sorted(urls)[idx + 1], idx)
            /\ pc' = "parse"
       ELSE /\ pc' = "done"
            /\ UNCHANGED article
    /\ UNCHANGED <<config, instances, disk, seed_urls, urls, seed, idx, state, history, exc, runs>>

\* ArticleParser._load_state
Parser_load_state == Range(parserFile.processed)

\* parse without the membership test on the loaded state
parse_unchecked ==
    /\ pc = "parse"
    /\ IF parserFile.status = "truncated"
       THEN Raise("JSONDecodeError")
       ELSE /\ pc' = "parse_fetch"
            /\ UNCHANGED exc
    /\ UNCHANGED <<config, instances, disk, memory, history, runs>>

\* ArticleParser.parse: if self.full_url in self._load_state(): return
parse ==
    /\ pc = "parse"
    /\ IF parserFile.status = "truncated"
       THEN Raise("JSONDecodeError")
       ELSE /\ pc' = IF article.url \in Parser_load_state THEN "save" ELSE "parse_fetch"
            /\ UNCHANGED exc
    /\ UNCHANGED <<config, instances, disk, memory, history, runs>>

\* ArticleParser.unify_date_format: datetime.fromisoformat succeeds
unify_date_format(u) == u \notin badDates

\* parse that goes on to _save_state when the date does not convert
parse_fill_ignoring_date ==
    /\ pc = "parse_fetch"
    /\ \E ok \in BOOLEAN :
        LET u == article.url
        IN  IF ~ok
            THEN /\ Raise("article_fetch_failed")
                 /\ UNCHANGED article
            ELSE IF ~unify_date_format(u)
            THEN /\ article' = [article EXCEPT !.text = u, !.title = u, !.author = u]
                 /\ pc' = "ps_create"
                 /\ UNCHANGED exc
            ELSE /\ article' = [article EXCEPT !.text = u, !.title = u, !.author = u,
                                               !.date = u, !.topics = <<u>>]
                 /\ pc' = "ps_create"
                 /\ UNCHANGED exc
    /\ UNCHANGED <<config, instances, disk, seed_urls, urls, seed, idx, state, history, runs>>

\* ArticleParser.parse: fetch_page, _fill_article_with_text,
\* _fill_article_with_meta_information
parse_fill ==
    /\ pc = "parse_fetch"
    /\ \E ok \in BOOLEAN :
        LET u == article.url
        IN  IF ~ok
            THEN \* BeautifulSoup(None, features='lxml')
                 /\ Raise("article_fetch_failed")
                 /\ UNCHANGED article
            ELSE IF ~unify_date_format(u)
            THEN /\ Raise("ValueError")
                 /\ article' = [article EXCEPT !.text = u, !.title = u, !.author = u]
            ELSE /\ article' = [article EXCEPT !.text = u, !.title = u, !.author = u,
                                               !.date = u, !.topics = <<u>>]
                 /\ pc' = "ps_create"
                 /\ UNCHANGED exc
    /\ UNCHANGED <<config, instances, disk, seed_urls, urls, seed, idx, state, history, runs>>

\* ArticleParser._save_state: if not os.path.exists(PARSER_STATE): write '{"processed": []}'
Parser_save_state_create ==
    /\ pc = "ps_create"
    /\ parserFile' = IF parserFile.status = "absent"
                     THEN [status |-> "ok", processed |-> <<>>]
                     ELSE parserFile
    /\ pc' = "ps_read"
    /\ UNCHANGED <<config, instances, crawlerFile, assetsExist, store, memory, history, exc, runs>>

\* ArticleParser._save_state: state = json.load(file); state['processed'].append(url)
Parser_save_state_read ==
    /\ pc = "ps_read"
    /\ IF parserFile.status = "truncated"
       THEN /\ Raise("JSONDecodeError")
            /\ UNCHANGED state
       ELSE /\ state' = Append(parserFile.processed, article.url)
            /\ pc' = "ps_open"
            /\ UNCHANGED exc
    /\ UNCHANGED <<config, instances, disk, seed_urls, urls, seed, idx, article, history, runs>>

\* ArticleParser._save_state: open(PARSER_STATE, 'w') empties the file
Parser_save_state_open ==
    /\ pc = "ps_open"
    /\ parserFile' = [status |-> "truncated", processed |-> <<>>]
    /\ pc' = "ps_dump"
    /\ UNCHANGED <<config, instances, crawlerFile, assetsExist, store, memory, history, exc, runs>>

\* ArticleParser._save_state: json.dump(state, file) and close
Parser_save_state ==
    /\ pc = "ps_dump"
    /\ parserFile' = [status |-> "ok", processed |-> state]
    /\ pc' = "save"
    /\ UNCHANGED <<config, instances, crawlerFile, assetsExist, store, memory, history, exc, runs>>

\* Article.save_raw: one artifact per article id, holding the article's fields
save_raw(a) == [store EXCEPT ![a.id] = a]

\* parser.save() in main's loop, and the loop's next iteration
save ==
    /\ pc = "save"
    /\ store' = save_raw(article)
    /\ saves' = [saves EXCEPT ![article.id] = @ + 1]
    /\ idx' = idx + 1
    /\ pc' = "parse_loop"
    /\ UNCHANGED <<config, instances, crawlerFile, parserFile, assetsExist, seed_urls, urls, seed,
                   article, state, added, merged, loaded, fetched, lastKill, exc, runs>>

\* ------------------------------------------------------------- kill and restart
ForgetMemory ==
    /\ seed_urls' = <<>>
    /\ urls' = {}
    /\ seed' = NoPage
    /\ idx' = 0
    /\ article' = NoArticle
    /\ state' = <<>>

\* The process is terminated from outside: what is in memory is gone.
Kill ==
    /\ pc \in Running
    /\ pc' = "killed"
    /\ lastKill' = [at |-> pc, store |-> store, urls |-> Range(crawlerFile.urls)]
    /\ ForgetMemory
    /\ UNCHANGED <<config, instances, disk, added, merged, loaded, fetched, saves, exc, runs>>

\* The job is started again: main runs from its first line.
Restart ==
    /\ pc \in {"killed", "crashed"}
    /\ runs < MaxRuns
    /\ runs' = runs + 1
    /\ pc' = "start"
    /\ exc' = "none"
    /\ ForgetMemory
    /\ added' = 0
    /\ merged' = {}
    /\ loaded' = {}
    /\ fetched' = {}
    /\ UNCHANGED <<config, instances, disk, saves, lastKill>>

Next ==
    \/ main
    \/ Crawler_load_state
    \/ get_search_urls
    \/ find_articles
    \/ Crawler_save_state_open
    \/ Crawler_save_state
    \/ main_loop
    \/ parse
    \/ parse_fill
    \/ Parser_save_state_create
    \/ Parser_save_state_read
    \/ Parser_save_state_open
    \/ Parser_save_state
    \/ save
    \/ Kill
    \/ Restart

Spec == Init /\ [][Next]_vars

\* ------------------------------------------------------------- validate_config alone
\* main's first line, on any configuration file
InitConfig ==
    /\ configFile \in ConfigFiles
    /\ validated = NotValidated
    /\ max_articles = 1
    /\ max_articles_per_seed = 1
    /\ layout = "distinct"
    /\ lastPage = NumPages
    /\ badDates = {}
    /\ FreshJob
    /\ NoInstances

\* urls, max_num_articles, max_per_seed = validate_config(CRAWLER_CONFIG_PATH)
main_validate_config ==
    /\ pc = "start"
    /\ validated = NotValidated
    /\ LET r == validate_config(configFile)
       IN  /\ validated' = r
           /\ IF r.error = "none"
              THEN pc' = "validated" /\ UNCHANGED exc
              ELSE Raise(r.error)
    /\ UNCHANGED <<max_articles, max_articles_per_seed, layout, lastPage, badDates,
                   configFile, instances, disk, memory, history, runs>>

SpecConfig == InitConfig /\ [][main_validate_config]_vars

\* ------------------------------------------------------------- instances sharing PARSER_STATE
\* Each instance runs main's loop over the same sorted URLs: parse (the check
\* against the loaded state, then fetch and fill, which succeed here) and
\* _save_state, one file operation per step.
InitInstances ==
    /\ started \in Instances
    /\ ipc = [w \in Instances |-> IF w <= started THEN "parse" ELSE "off"]
    /\ iidx = [w \in Instances |-> 0]
    /\ istate = [w \in Instances |-> <<>>]
    /\ completed = {}
    /\ configFile = ValidConfigFile(NumJobUrls, NumJobUrls)
    /\ validated = NotValidated
    /\ max_articles = NumJobUrls
    /\ max_articles_per_seed = NumJobUrls
    /\ layout = "distinct"
    /\ lastPage = NumPages
    /\ badDates = {}
    /\ FreshJob

InstanceUrl(w) == iidx[w] + 1
InstanceFrame == UNCHANGED <<config, crawlerFile, assetsExist, store, memory, history,
                             pc, exc, runs, started>>

\* ArticleParser.parse: if self.full_url in self._load_state(): return
Instance_parse ==
    \E w \in Instances :
        /\ ipc[w] = "parse"
        /\ iidx[w] < NumJobUrls
        /\ IF parserFile.status = "truncated"
           THEN ipc' = [ipc EXCEPT ![w] = "crashed"] /\ UNCHANGED iidx
           ELSE IF InstanceUrl(w) \in Parser_load_state
           THEN iidx' = [iidx EXCEPT ![w] = @ + 1] /\ UNCHANGED ipc
           ELSE ipc' = [ipc EXCEPT ![w] = "ps_create"] /\ UNCHANGED iidx
        /\ UNCHANGED <<parserFile, istate, completed>>
        /\ InstanceFrame

\* _save_state: if not os.path.exists(PARSER_STATE): write '{"processed": []}'
Instance_save_state_create ==
    \E w \in Instances :
        /\ ipc[w] = "ps_create"
        /\ parserFile' = IF parserFile.status = "absent"
                         THEN [status |-> "ok", processed |-> <<>>]
                         ELSE parserFile
        /\ ipc' = [ipc EXCEPT ![w] = "ps_read"]
        /\ UNCHANGED <<iidx, istate, completed>>
        /\ InstanceFrame

\* _save_state: state = json.load(file); state['processed'].append(url)
Instance_save_state_read ==
    \E w \in Instances :
        /\ ipc[w] = "ps_read"
        /\ IF parserFile.status = "truncated"
           THEN ipc' = [ipc EXCEPT ![w] = "crashed"] /\ UNCHANGED istate
           ELSE /\ istate' = [istate EXCEPT ![w] = Append(parserFile.processed, InstanceUrl(w))]
                /\ ipc' = [ipc EXCEPT ![w] = "ps_open"]
        /\ UNCHANGED <<parserFile, iidx, completed>>
        /\ InstanceFrame

\* _save_state: open(PARSER_STATE, 'w') empties the file
Instance_save_state_open ==
    \E w \in Instances :
        /\ ipc[w] = "ps_open"
        /\ parserFile' = [status |-> "truncated", processed |-> <<>>]
        /\ ipc' = [ipc EXCEPT ![w] = "ps_dump"]
        /\ UNCHANGED <<iidx, istate, completed>>
        /\ InstanceFrame

\* _save_state that dumps only the URL just parsed
Instance_save_state_url_only ==
    \E w \in Instances :
        /\ ipc[w] = "ps_dump"
        /\ parserFile' = [status |-> "ok", processed |-> <<InstanceUrl(w)>>]
        /\ completed' = completed \cup {InstanceUrl(w)}
        /\ iidx' = [iidx EXCEPT ![w] = @ + 1]
        /\ ipc' = [ipc EXCEPT ![w] = "parse"]
        /\ UNCHANGED istate
        /\ InstanceFrame

\* _save_state: json.dump(state, file) and close; parse returns, the loop goes on
Instance_save_state ==
    \E w \in Instances :
        /\ ipc[w] = "ps_dump"
        /\ parserFile' = [status |-> "ok", processed |-> istate[w]]
        /\ completed' = completed \cup {InstanceUrl(w)}
        /\ iidx' = [iidx EXCEPT ![w] = @ + 1]
        /\ ipc' = [ipc EXCEPT ![w] = "parse"]
        /\ UNCHANGED istate
        /\ InstanceFrame

NextInstances ==
    \/ Instance_parse
    \/ Instance_save_state_create
    \/ Instance_save_state_read
    \/ Instance_save_state_open
    \/ Instance_save_state

SpecInstances == InitInstances /\ [][NextInstances]_vars

\* ------------------------------------------------------------- properties
WalkPhase == {"load_state", "get_search_urls", "process_seed", "save_open", "save_dump"}
ParsePhase == {"parse_loop", "parse", "parse_fetch", "ps_create", "ps_read", "ps_open",
               "ps_dump", "save", "done"}

\* The run loaded, as its first CrawlState, one that an earlier run persisted.
Resumed == runs >= 2 /\ loaded # {}

\* C1: in every state of the seed walk, also of a walk that starts from a
\* CrawlState an earlier run persisted, crawler.urls holds at most max_articles
\* URLs, and so does the URL list of the CrawlState file.
C1_UrlsWithinCap ==
    /\ Cardinality(urls) <= max_articles
    /\ Len(crawlerFile.urls) <= max_articles

\* A resumed walk has met the cap exactly.
C1_Witness ==
    /\ Resumed
    /\ pc = "parse_loop"
    /\ Cardinality(urls) = max_articles
    /\ max_articles > max_articles_per_seed

C3_Resumable ==
    LET w == Walk(FirstPage, {})
    IN  /\ pc \in ParsePhase => w.returned /\ urls = w.urls
        /\ (pc = "crashed" /\ exc = "no_next_page") => ~w.returned /\ urls = w.urls

\* A run killed in the walk after a persist was restarted, loaded the state and
\* finished its walk.
C3_Witness ==
    /\ Resumed
    /\ lastKill.at \in WalkPhase
    /\ pc = "parse_loop"
    /\ idx = 0
    /\ Cardinality(urls) > 1

NoDuplicates(s) == \A i, j \in 1..Len(s) : s[i] = s[j] => i = j
IsEmptyArticle(a) == a = EmptyArticle(a.url, a.id)
IsFilledArticle(a) ==
    /\ a.url # 0
    /\ a.text = a.url /\ a.title = a.url /\ a.author = a.url /\ a.date = a.url
    /\ a.topics = <<a.url>>

\* C4: whenever the CrawlState file exists (and the process is not inside the
\* write of it), the head of its seed list is the page after the last page
\* whose links its urls include; a restarted run that finds the file starts its
\* walk at that cursor with the persisted URL set, is not stopped at the load,
\* and fetches no listing page whose links were merged before that persist.
C4_ResumeAtCursor ==
    /\ (crawlerFile.status # "absent" /\ pc # "save_dump") =>
            /\ crawlerFile.status = "ok"
            /\ crawlerFile.pages # {}
            /\ crawlerFile.seed[1] = NextPage(SetMax(crawlerFile.pages))
    /\ (pc = "get_search_urls" /\ fetched = {} /\ crawlerFile.status # "absent") =>
            /\ seed_urls = crawlerFile.seed
            /\ urls = Range(crawlerFile.urls)
    /\ (pc = "crashed" /\ fetched = {}) => exc # "JSONDecodeError"
    /\ fetched \cap loaded = {}

\* C5: parse fetches an article page only after finding its URL absent from the
\* persisted ParsedURLSet, so no URL is recorded as parsed twice; a call of parse
\* on a URL that is in the persisted ParsedURLSet returns at once: it fetches
\* nothing, fills nothing and leaves the ParserState file as it is.
C5_ParseIdempotent ==
    /\ [](pc = "parse_fetch" => article.url \notin Parser_load_state)
    /\ [](NoDuplicates(parserFile.processed))
    /\ [][(pc = "parse" /\ article.url \in Parser_load_state) =>
            /\ pc' \in {"save", "killed"}
            /\ parserFile' = parserFile
            /\ pc' = "save" => article' = article /\ IsEmptyArticle(article')]_vars

\* A restarted run has called parse on a URL an earlier call had parsed, and the
\* call returned without doing anything.
C5_Witness ==
    /\ runs >= 2
    /\ pc = "save"
    /\ article.url \in Parser_load_state
    /\ IsEmptyArticle(article)
    /\ IsFilledArticle(store[article.id])

\* C6: a kill loses no unit of work completed before it: when the restarted run
\* completes, every URL the CrawlState held at the kill is in crawler.urls, and
\* every article the store held with filled fields at the kill is still stored
\* with the same fields.
C6_CompletedWorkSurvives ==
    (pc = "done" /\ lastKill.at # "none") =>
        /\ lastKill.urls \subseteq urls
        /\ \A i \in ArticleIds :
               IsFilledArticle(lastKill.store[i]) => store[i] = lastKill.store[i]

\* C7: every article is written to the ArticleStore exactly once over the life
\* of the job, kills and restarts included: never more than once, and once when
\* the job is done.
C7_SavedExactlyOnce ==
    /\ \A i \in ArticleIds : saves[i] <= 1
    /\ pc = "done" => \A i \in ArticleIds : i < Cardinality(urls) => saves[i] = 1

\* C8: a failed fetch of an article page does not end the run.
C8_ArticleFetchFailureIsLocal ==
    ~(pc = "crashed" /\ exc = "article_fetch_failed")

\* C9: a failed fetch of the listing page at the cursor does not end the walk.
C9_ListingFetchFailureIsLocal ==
    ~(pc = "crashed" /\ exc = "listing_fetch_failed")

\* C10: reaching a listing page without a next-page control before the cap is
\* met ends the walk normally (the parse phase follows), not with an error.
C10_PaginationEndIsDone ==
    ~(pc = "crashed" /\ exc = "no_next_page")

\* The walk has ended without a failed fetch: find_articles returned, or the
\* cursor stood on a page without a next-page control.
WalkEnded == pc \in ParsePhase \/ (pc = "crashed" /\ exc = "no_next_page")

\* C11: on a site of two listing pages with 3 distinct links each, with
\* max_articles = 5 and max_articles_per_seed = 3, the walk ends with the 3 links
\* of the first page and the first 2 of the second, 5 URLs in all; and whenever a
\* page meets the cap, what it added are its leading links, as many as were
\* missing to max_articles.
C11_CapTruncation ==
    /\ (/\ layout = "distinct" /\ lastPage = 2 /\ LinksPerPage = 3
        /\ max_articles = 5 /\ max_articles_per_seed = 3
        /\ WalkEnded) =>
            /\ urls = Range(extract_url(1)) \cup Range(SubSeq(extract_url(2), 1, 2))
            /\ Cardinality(urls) = 5
    /\ (pc = "parse_loop" /\ idx = 0) =>
            /\ Cardinality(urls) = max_articles
            /\ Range(SubSeq(extract_url(seed), 1, added)) \subseteq urls
            /\ Cardinality(urls \ Range(SubSeq(extract_url(seed), 1, added)))
                  = max_articles - added

\* The number of discovered URLs that sort before u.
RankOf(u) == Cardinality({v \in urls : v < u})

\* C12: in the parse phase the article being handled is a discovered URL whose
\* id is the number of discovered URLs that sort before it (so ids are 0..n-1 and
\* grow with the URLs), and every artifact in the store, whichever run wrote it,
\* sits under the id its URL has in this run.
C12_IdsFollowSortedOrder ==
    /\ pc \in {"parse", "parse_fetch", "ps_create", "ps_read", "ps_open", "ps_dump", "save"} =>
            /\ article.url \in urls
            /\ article.id = RankOf(article.url)
            /\ article.id = idx
            /\ article.id \in 0..(Cardinality(urls) - 1)
    /\ pc \in ParsePhase =>
            \A i \in ArticleIds :
                store[i] # NoArticle =>
                    /\ store[i].id = i
                    /\ store[i].url \in urls
                    /\ RankOf(store[i].url) = i

\* A restarted run hands out, to a URL that is not the smallest, the id under
\* which an earlier run stored it.
C12_Witness ==
    /\ runs >= 2
    /\ pc = "parse"
    /\ article.id >= 1
    /\ saves[article.id] = 1
    /\ store[article.id].url = article.url

AllUrlsMatch(cf) == \A i \in 1..Len(cf.base_urls) : url_check(cf.base_urls[i])
InRange(v) == 0 < v.val /\ v.val <= MaxTotalArticles

\* C13: for a configuration file that is JSON with all its fields, validate_config
\* raises IncorrectURLError when a base_urls entry does not match the pattern
\* ("not a url" among them), else IncorrectNumberOfArticlesError when the count is
\* no int (the string "5" among them), else NumberOfArticlesOutOfRangeError when
\* the count is outside (0, 100000] (0 and 100001 among them), and else returns
\* base_urls, the count and the per-seed number as they are in the file.
C13_ValidationErrors ==
    (validated # NotValidated /\ configFile.json /\ configFile.fields = ConfigFields) =>
        LET cf == configFile
            e == validated.error
        IN  /\ e # "none" <=> (pc = "crashed" /\ exc = e)
            /\ NotAUrl \in Range(cf.base_urls) => e = "IncorrectURLError"
            /\ ~AllUrlsMatch(cf) => e = "IncorrectURLError"
            /\ (AllUrlsMatch(cf) /\ cf.total = [type |-> "str", val |-> 5]) =>
                    e = "IncorrectNumberOfArticlesError"
            /\ (AllUrlsMatch(cf) /\ ~IsPythonInt(cf.total)) =>
                    e = "IncorrectNumberOfArticlesError"
            /\ (AllUrlsMatch(cf) /\ cf.total \in {IntValue(0), IntValue(100001)}) =>
                    e = "NumberOfArticlesOutOfRangeError"
            /\ (AllUrlsMatch(cf) /\ IsPythonInt(cf.total) /\ ~InRange(cf.total)) =>
                    e = "NumberOfArticlesOutOfRangeError"
            /\ (AllUrlsMatch(cf) /\ IsPythonInt(cf.total) /\ InRange(cf.total)) =>
                    /\ e = "none"
                    /\ pc = "validated"
                    /\ validated.base_urls = cf.base_urls
                    /\ validated.total = cf.total
                    /\ validated.per_seed = cf.per_seed

\* validate_config has rejected the count "5" of a file whose URLs all match.
C13_Witness ==
    /\ pc = "crashed"
    /\ configFile.total = [type |-> "str", val |-> 5]
    /\ configFile.base_urls = <<GoodUrl, BareUrl>>
    /\ validated.error = "IncorrectNumberOfArticlesError"

\* C14: a configuration file that is not JSON, or that lacks a required field
\* while what it holds is valid, makes validate_config raise UnknownConfigError.
C14_StructureErrorsAreUnknown ==
    LET cf == configFile
        sound == AllUrlsMatch(cf) /\ IsPythonInt(cf.total) /\ InRange(cf.total)
    IN  (validated # NotValidated /\ (~cf.json \/ (cf.fields # ConfigFields /\ sound))) =>
            validated.error = "UnknownConfigError"

\* The crawler is at the _load_state that follows a _save_state of the same run.
AfterSave == pc = "load_state" /\ fetched # {}

\* C15: _save_state followed by _load_state leaves the crawler with the URL set
\* and the cursor list it had before the save, and these are what the file holds.
C15_RoundTrip ==
    [][(AfterSave /\ pc' = "get_search_urls") =>
            /\ urls' = urls
            /\ seed_urls' = seed_urls
            /\ Range(crawlerFile.urls) = urls
            /\ crawlerFile.seed = seed_urls]_vars

\* A state saved with several URLs and an advanced cursor has been loaded back.
C15_Witness ==
    /\ pc = "get_search_urls"
    /\ fetched # {}
    /\ crawlerFile.status = "ok"
    /\ Cardinality(urls) >= 2
    /\ urls = Range(crawlerFile.urls)
    /\ seed_urls = crawlerFile.seed
    /\ seed_urls[1] # FirstPage

\* What a state file holds, when it is not in the middle of being rewritten.
PersistedUrls == Range(crawlerFile.urls)
PersistedParsed == Range(parserFile.processed)

\* C16: within a run (no kill, no restart) every step leaves the in-memory URL
\* set, the URL set of the crawler state file and the processed list of the parser
\* state file a superset of what it was. A rewrite of a file is one step of the
\* program: what is about to be written covers what the file held, and the dump
\* writes exactly that.
C16_SetsOnlyGrow ==
    [][(pc' \notin {"killed", "start"}) =>
            /\ urls \subseteq urls'
            /\ (crawlerFile.status # "truncated" /\ crawlerFile'.status # "truncated") =>
                    PersistedUrls \subseteq Range(crawlerFile'.urls)
            /\ pc = "save_open" => PersistedUrls \subseteq urls
            /\ pc = "save_dump" => Range(crawlerFile'.urls) = urls
            /\ (parserFile.status # "truncated" /\ parserFile'.status # "truncated") =>
                    PersistedParsed \subseteq Range(parserFile'.processed)
            /\ pc = "ps_open" => PersistedParsed \subseteq Range(state)
            /\ pc = "ps_dump" => parserFile'.processed = state]_vars

\* One run has reloaded its state between pages and recorded two parsed URLs.
C16_Witness ==
    /\ runs = 1
    /\ pc = "save"
    /\ Cardinality(merged) >= 2
    /\ crawlerFile.status = "ok"
    /\ Cardinality(PersistedUrls) >= 2
    /\ Len(parserFile.processed) >= 2

\* C17: when the seed walk has ended, by the cap or at the end of the
\* pagination, every listing page it fetched has had its links merged.
C17_ReachedPagesAreMerged == WalkEnded => fetched \subseteq merged

\* C18: the Article that parser.save hands to the store has every field filled.
C18_SavedArticleIsFilled == pc = "save" => IsFilledArticle(article)

\* ArticleParser._save_state is running.
InParserSave == pc \in {"ps_create", "ps_read", "ps_open", "ps_dump"}

\* C19: _save_state runs only for an article whose text and meta fields are all
\* filled, and the only change it makes to the processed list is to append that
\* article's URL; a parse that fails at the fetch or at the date conversion leaves
\* the parser state file as it is, without the URL; and a later run that calls
\* parse on a URL missing from the file fetches it again.
C19_AppendedOnlyWhenFilled ==
    /\ [](InParserSave => IsFilledArticle(article))
    /\ [][(parserFile'.processed # parserFile.processed /\ parserFile'.status = "ok") =>
            /\ IsFilledArticle(article)
            /\ parserFile'.processed \in {<<>>, state}
            /\ state # <<>> => state[Len(state)] = article.url]_vars
    /\ [][(pc = "parse_fetch" /\ pc' = "crashed") =>
            /\ exc' \in {"article_fetch_failed", "ValueError"}
            /\ parserFile' = parserFile
            /\ article.url \notin Range(parserFile'.processed)]_vars
    /\ [][(pc = "parse" /\ runs >= 2 /\ parserFile.status # "truncated"
            /\ article.url \notin PersistedParsed /\ pc' # "killed") =>
            pc' = "parse_fetch"]_vars

\* Run 1 ended, without a kill, in the parse of a URL whose date does not convert
\* (the article before it was saved by both runs); run 2 is fetching that URL again.
C19_Witness ==
    /\ runs = 2
    /\ lastKill.at = "none"
    /\ pc = "parse_fetch"
    /\ article.url \in badDates
    /\ article.id >= 1
    /\ saves[article.id - 1] = 2
    /\ article.url \notin PersistedParsed

\* No instance is between the open and the dump of the parser state file.
NoWriteInProgress == \A w \in Instances : ipc[w] # "ps_dump"

\* A URL whose parse completed is missing from the persisted ParsedURLSet.
LostUpdate ==
    /\ NoWriteInProgress
    /\ parserFile.status = "ok"
    /\ \E u \in completed : u \notin PersistedParsed

\* C20: with one instance writing the parser state file, every URL whose parse
\* completed is in the file whenever no write is in progress (and the file is
\* never found empty by a read); a lost update needs a second instance.
C20_SingleWriterLosesNothing ==
    started = 1 =>
        /\ ~LostUpdate
        /\ ipc[1] # "crashed"
        /\ NoWriteInProgress => completed = PersistedParsed

\* Two instances: one read the file before the other completed its URLs, and
\* its later dump has removed a completed URL from the file.
C20_Witness == started = 2 /\ LostUpdate

====
